---------------------------- MODULE Spec2Model ----------------------------
(***************************************************************************)
(* Alien Invasion (Lab14): the frame loop of AlienInvasion with its ship,  *)
(* arsenal, alien fleet, statistics and settings.                          *)
(*                                                                         *)
(* Positions that the program keeps as floats (Ship.y, Alien.x, Alien.y,   *)
(* Bullet.x) and the three scaled speeds are fixed-point numbers counted   *)
(* in 1/Unit pixel, so that the speeds of every level up to MaxLevel + 1   *)
(* (base * 1.1^(level-1)) are exact.  A pygame Rect holds integers: a      *)
(* float stored into rect.x / rect.y is truncated toward zero (Trunc).     *)
(***************************************************************************)
EXTENDS Integers, Sequences, FiniteSets, TLC

(***************************************************************************)
(* Bounds of the model.                                                    *)
(***************************************************************************)
\* highest level a start state is taken from
MaxLevel == 2
\* loop iterations (frames) followed from a start state
MaxFrames == 2
\* bullets the player keeps in flight (fire requests come only below it)
MaxShots == 1
\* frames followed while the arsenal is filled to its cap
MaxBurstFrames == 1
\* largest width and height of the small screens a fleet is laid out on
MaxScreen == 9
\* largest width and height of the aliens laid out on a small screen
MaxUnit == 2

RECURSIVE Pow(_, _)
Pow(b, e) == IF e = 0 THEN 1 ELSE b * Pow(b, e - 1)

Unit == Pow(10, MaxLevel)
Px(n) == n * Unit
Trunc(v) == IF v >= 0 THEN v \div Unit ELSE -((-v) \div Unit)

(***************************************************************************)
(* Settings.__init__: the static settings.                                 *)
(***************************************************************************)
screen_w == 1200
screen_h == 800
ship_w == 40
ship_h == 60
alien_w == 40
alien_h == 40
button_w == 200
button_h == 50
\* difficulty_scale = 1.1 = difficulty_num / difficulty_den
difficulty_num == 11
difficulty_den == 10
\* _remove_bullets_offscreen: the margin right of the screen
offscreen_margin == 80

(***************************************************************************)
(* Settings.initialize_dynamic_settings / increase_difficulty              *)
(***************************************************************************)
initialize_dynamic_settings ==
    [ship_speed          |-> Px(10),
     starting_ship_count |-> 3,
     bullet_speed        |-> Px(20),
     bullet_amount       |-> 50,
     bullet_w            |-> 25,
     bullet_h            |-> 80,
     fleet_speed         |-> Px(5),
     fleet_drop_speed    |-> 40,
     alien_points        |-> 50]

\* increase_difficulty leaving the fleet at its speed
increase_difficulty_slow_fleet(s) ==
    [s EXCEPT !.ship_speed   = (s.ship_speed * difficulty_num) \div difficulty_den,
              !.bullet_speed = (s.bullet_speed * difficulty_num) \div difficulty_den]

increase_difficulty(s) ==
    [s EXCEPT !.ship_speed   = (s.ship_speed * difficulty_num) \div difficulty_den,
              !.bullet_speed = (s.bullet_speed * difficulty_num) \div difficulty_den,
              !.fleet_speed  = (s.fleet_speed * difficulty_num) \div difficulty_den]

(***************************************************************************)
(* Rectangles (pygame.Rect) of the sprites.  The images are scaled and     *)
(* then rotated by -90 degrees, which swaps width and height.              *)
(***************************************************************************)
Rect(x, y, w, h) == [x |-> x, y |-> y, w |-> w, h |-> h]

colliderect(a, b) ==
    /\ a.x < b.x + b.w
    /\ b.x < a.x + a.w
    /\ a.y < b.y + b.h
    /\ b.y < a.y + a.h

ship_rect(s) == Rect(0, Trunc(s.y), ship_h, ship_w)
alien_rect(a) == Rect(Trunc(a.x), Trunc(a.y), alien_w, alien_h)
bullet_rect(b, st) == Rect(Trunc(b.x), b.y, st.bullet_h, st.bullet_w)

(***************************************************************************)
(* AlienFleet: layout                                                      *)
(***************************************************************************)
\* calculate_fleet_size with the parity test the wrong way round
calculate_fleet_size_swapped(ah, sh, aw, sw) ==
    LET fh == sh \div ah
        fw == sw \div (2 * aw)
    IN  [fleet_h |-> IF fh % 2 = 0 THEN fh - 2 ELSE fh - 1,
         fleet_w |-> IF fw % 2 = 0 THEN fw - 2 ELSE fw - 1]

calculate_fleet_size(ah, sh, aw, sw) ==
    LET fh == sh \div ah
        fw == sw \div (2 * aw)
    IN  [fleet_h |-> IF fh % 2 = 0 THEN fh - 1 ELSE fh - 2,
         fleet_w |-> IF fw % 2 = 0 THEN fw - 1 ELSE fw - 2]

calculate_offsets(ah, fh, aw, fw, sh, sw) ==
    LET half_screen == sw \div 2
    IN  [x_offset |-> half_screen + ((half_screen - fw * aw) \div 2),
         y_offset |-> (sh - fh * ah) \div 2]

\* Alien.__init__: rect.x = x, rect.y = y, then the floats are read back
create_alien(cx, cy) == [x |-> Px(cx), y |-> Px(cy)]

\* the cells range(fleet_w) x range(fleet_h) visits, column by column
grid_cells(fw, fh) ==
    [i \in 1..(IF fw > 0 /\ fh > 0 THEN fw * fh ELSE 0) |->
        [col |-> (i - 1) \div fh, row |-> (i - 1) % fh]]

\* _create_rectangle_fleet skipping a cell only when row and column are even
create_rectangle_fleet_dense(fw, fh, aw, ah, xo, yo) ==
    LET kept == SelectSeq(grid_cells(fw, fh),
                          LAMBDA c : ~(c.row % 2 = 0 /\ c.col % 2 = 0))
    IN  [i \in 1..Len(kept) |->
            create_alien(aw * kept[i].col + xo, ah * kept[i].row + yo)]

create_rectangle_fleet(fw, fh, aw, ah, xo, yo) ==
    LET kept == SelectSeq(grid_cells(fw, fh),
                          LAMBDA c : ~(c.row % 2 = 0 \/ c.col % 2 = 0))
    IN  [i \in 1..Len(kept) |->
            create_alien(aw * kept[i].col + xo, ah * kept[i].row + yo)]

\* create_fleet for a screen of sw x sh and aliens of aw x ah: the aliens it
\* adds to the group
create_fleet_for(ah, aw, sh, sw) ==
    LET size == calculate_fleet_size(ah, sh, aw, sw)
        off  == calculate_offsets(ah, size.fleet_h, aw, size.fleet_w, sh, sw)
    IN  create_rectangle_fleet(size.fleet_w, size.fleet_h, aw, ah,
                               off.x_offset, off.y_offset)

\* create_fleet with the dimensions of Settings
create_fleet == create_fleet_for(alien_h, alien_w, screen_h, screen_w)


(***************************************************************************)
(* The state.                                                              *)
(*   settings     the dynamic settings of Settings                         *)
(*   stats        GameStats: ships_left, score, level, max_score, hi_score *)
(*   ship         Ship: y (float), moving_up, moving_down                  *)
(*   arsenal      Arsenal.arsenal: the bullets, in the group's order       *)
(*   alien_fleet  AlienFleet: fleet (the aliens, in the group's order),    *)
(*                fleet_direction, fleet_drop_speed                        *)
(*   game_active, running   AlienInvasion                                  *)
(*   saved        the content of scores_file                               *)
(*   tick         iterations of the loop of run_game so far                *)
(*   log          what the last step did, in order                         *)
(***************************************************************************)
VARIABLES settings, stats, ship, arsenal, alien_fleet, game_active, running,
          saved, tick, log

vars == <<settings, stats, ship, arsenal, alien_fleet, game_active, running,
          saved, tick, log>>

\* the objects a handler of AlienInvasion reads and writes
World ==
    [settings |-> settings, stats |-> stats, ship |-> ship, arsenal |-> arsenal,
     alien_fleet |-> alien_fleet, game_active |-> game_active, log |-> <<>>]

Did(w, what) == [w EXCEPT !.log = Append(@, what)]

(***************************************************************************)
(* GameStats                                                               *)
(***************************************************************************)
\* reset_stats that also forgets the high score
reset_stats_forgets_hi(st, s) ==
    [st EXCEPT !.ships_left = s.starting_ship_count, !.score = 0, !.level = 1,
               !.hi_score = 0]

reset_stats(st, s) ==
    [st EXCEPT !.ships_left = s.starting_ship_count, !.score = 0, !.level = 1]

update_score(st, s, crashed) ==
    [st EXCEPT !.score = @ + Len(crashed) * s.alien_points]

update_max_score(st) ==
    IF st.score > st.max_score THEN [st EXCEPT !.max_score = st.score] ELSE st

update_hi_score(st) ==
    IF st.score > st.hi_score THEN [st EXCEPT !.hi_score = st.score] ELSE st

\* GameStats.update
update(st, s, crashed) ==
    update_hi_score(update_max_score(update_score(st, s, crashed)))

update_level(st) == [st EXCEPT !.level = @ + 1]

(***************************************************************************)
(* Ship, Bullet and Arsenal                                                *)
(***************************************************************************)
center_ship(sh) == [sh EXCEPT !.y = Px(screen_h \div 2 - ship_w \div 2)]

update_ship_movement(sh, s) ==
    LET r  == ship_rect(sh)
        y1 == IF sh.moving_up /\ r.y > 0 THEN sh.y - s.ship_speed ELSE sh.y
        y2 == IF sh.moving_down /\ r.y + r.h < screen_h
              THEN y1 + s.ship_speed ELSE y1
    IN  [sh EXCEPT !.y = y2]

\* Bullet.__init__: rect.midleft = ship.rect.midleft
new_bullet(sh, s) ==
    LET r == ship_rect(sh)
    IN  [x |-> Px(r.x), y |-> (r.y + r.h \div 2) - s.bullet_w \div 2]

\* Bullet.update
bullet_update(b, s) == [b EXCEPT !.x = @ + s.bullet_speed]

remove_bullets_offscreen(bs, s) ==
    SelectSeq(bs, LAMBDA b :
        ~(bullet_rect(b, s).x + bullet_rect(b, s).w >= screen_w + offscreen_margin))

\* update_arsenal removing before it moves the bullets
update_arsenal_prune_first(bs, s) ==
    LET kept == remove_bullets_offscreen(bs, s)
    IN  [i \in 1..Len(kept) |-> bullet_update(kept[i], s)]

update_arsenal(bs, s) ==
    remove_bullets_offscreen([i \in 1..Len(bs) |-> bullet_update(bs[i], s)], s)

\* fire_bullet with the cap compared by <= : one bullet too many
fire_bullet_off_by_one(bs, sh, s) ==
    IF Len(bs) <= s.bullet_amount
    THEN [arsenal |-> Append(bs, new_bullet(sh, s)), fired |-> TRUE]
    ELSE [arsenal |-> bs, fired |-> FALSE]

\* Arsenal.fire_bullet / Ship.fire: the pool after the call, and what it returns
fire_bullet(bs, sh, s) ==
    IF Len(bs) < s.bullet_amount
    THEN [arsenal |-> Append(bs, new_bullet(sh, s)), fired |-> TRUE]
    ELSE [arsenal |-> bs, fired |-> FALSE]

\* Ship.update
ship_update(w) ==
    [w EXCEPT !.ship    = update_ship_movement(w.ship, w.settings),
              !.arsenal = update_arsenal(w.arsenal, w.settings)]

\* Ship.check_collisions: spritecollideany
ship_collides(sh, aliens) ==
    \E i \in 1..Len(aliens) : colliderect(ship_rect(sh), alien_rect(aliens[i]))

(***************************************************************************)
(* Alien and AlienFleet: movement and checks                               *)
(***************************************************************************)
check_edges(a) ==
    LET r == alien_rect(a) IN r.y + r.h >= screen_h \/ r.y <= 0

\* _drop_alien_fleet that leaves the aliens where they are
drop_alien_fleet_in_place(f) == f

drop_alien_fleet(f) ==
    [f EXCEPT !.fleet = [i \in 1..Len(f.fleet) |->
                            [f.fleet[i] EXCEPT !.x = @ - Px(f.fleet_drop_speed)]]]

\* _check_fleet_edges without the break: a drop and a flip for every alien
\* at an edge
check_fleet_edges_every_alien(f) ==
    LET n == Cardinality({i \in 1..Len(f.fleet) : check_edges(f.fleet[i])})
    IN  [f EXCEPT !.fleet = [i \in 1..Len(f.fleet) |->
                      [f.fleet[i] EXCEPT !.x = @ - n * Px(f.fleet_drop_speed)]],
                  !.fleet_direction = IF n % 2 = 1 THEN -1 * @ ELSE @]

check_fleet_edges(f) ==
    IF \E i \in 1..Len(f.fleet) : check_edges(f.fleet[i])
    THEN [drop_alien_fleet(f) EXCEPT !.fleet_direction = -1 * @]
    ELSE f

\* Alien.update
alien_update(a, s, dir) == [a EXCEPT !.y = @ + s.fleet_speed * dir]

\* update_fleet moving the aliens in the direction they had before the
\* edge check
update_fleet_old_direction(w) ==
    LET f == check_fleet_edges(w.alien_fleet)
    IN  [w EXCEPT !.alien_fleet =
            [f EXCEPT !.fleet = [i \in 1..Len(f.fleet) |->
                alien_update(f.fleet[i], w.settings, w.alien_fleet.fleet_direction)]]]

update_fleet(w) ==
    LET f == check_fleet_edges(w.alien_fleet)
    IN  [w EXCEPT !.alien_fleet =
            [f EXCEPT !.fleet = [i \in 1..Len(f.fleet) |->
                alien_update(f.fleet[i], w.settings, f.fleet_direction)]]]

check_fleet_left(f) ==
    \E i \in 1..Len(f.fleet) :
        alien_rect(f.fleet[i]).x + alien_rect(f.fleet[i]).w < 0

check_destroyed_status(f) == f.fleet = <<>>

(***************************************************************************)
(* AlienFleet.check_collisions: pygame.sprite.groupcollide(fleet, arsenal, *)
(* True, True).  The aliens are visited in the group's order; the bullets  *)
(* an alien overlaps are removed from the arsenal at once, then the alien. *)
(* crashed is the returned mapping, one entry per destroyed alien.         *)
(***************************************************************************)
RECURSIVE groupcollide_rematch(_, _, _)
\* groupcollide that removes the bullets only after the pass over the aliens:
\* a bullet is matched with every alien it overlaps
groupcollide_rematch(aliens, bullets, s) ==
    IF aliens = <<>>
    THEN [fleet |-> <<>>, arsenal |-> bullets, crashed |-> <<>>]
    ELSE LET a    == Head(aliens)
             over(b) == colliderect(alien_rect(a), bullet_rect(b, s))
             hits == SelectSeq(bullets, over)
             rest == groupcollide_rematch(Tail(aliens), bullets, s)
         IN  IF hits = <<>>
             THEN [rest EXCEPT !.fleet = <<a>> \o @]
             ELSE [rest EXCEPT !.crashed = <<[alien |-> a, hits |-> hits]>> \o @,
                               !.arsenal = SelectSeq(@, LAMBDA b : ~over(b))]

RECURSIVE groupcollide(_, _, _)
groupcollide(aliens, bullets, s) ==
    IF aliens = <<>>
    THEN [fleet |-> <<>>, arsenal |-> bullets, crashed |-> <<>>]
    ELSE LET a    == Head(aliens)
             over(b) == colliderect(alien_rect(a), bullet_rect(b, s))
             hits == SelectSeq(bullets, over)
             left == SelectSeq(bullets, LAMBDA b : ~over(b))
             rest == groupcollide(Tail(aliens), left, s)
         IN  IF hits = <<>>
             THEN [rest EXCEPT !.fleet = <<a>> \o @]
             ELSE [rest EXCEPT !.crashed = <<[alien |-> a, hits |-> hits]>> \o @]

(***************************************************************************)
(* AlienInvasion: level reset, life loss, collisions, restart              *)
(***************************************************************************)
\* _reset_level without arsenal.empty()
reset_level_keeps_bullets(w) ==
    Did([w EXCEPT !.alien_fleet.fleet = create_fleet], "reset_level")

reset_level(w) ==
    Did([w EXCEPT !.arsenal = <<>>,
                  !.alien_fleet.fleet = create_fleet], "reset_level")

\* _check_game_status ending the game with the last ship, not after it
check_game_status_last_ship(w) ==
    IF w.stats.ships_left > 1
    THEN reset_level(Did([w EXCEPT !.stats.ships_left = @ - 1], "life_lost"))
    ELSE Did([w EXCEPT !.game_active = FALSE], "game_over")

\* _check_game_status without the level reset
check_game_status_no_reset(w) ==
    IF w.stats.ships_left > 0
    THEN Did([w EXCEPT !.stats.ships_left = @ - 1], "life_lost")
    ELSE Did([w EXCEPT !.game_active = FALSE], "game_over")

\* _check_game_status taking a ship also when none is left
check_game_status_below_zero(w) ==
    IF w.stats.ships_left >= 0
    THEN reset_level(Did([w EXCEPT !.stats.ships_left = @ - 1], "life_lost"))
    ELSE Did([w EXCEPT !.game_active = FALSE], "game_over")

check_game_status(w) ==
    IF w.stats.ships_left > 0
    THEN reset_level(Did([w EXCEPT !.stats.ships_left = @ - 1], "life_lost"))
    ELSE Did([w EXCEPT !.game_active = FALSE], "game_over")

\* step (1): the ship against the fleet
collide_ship(w) ==
    IF ship_collides(w.ship, w.alien_fleet.fleet)
    THEN check_game_status(Did([w EXCEPT !.ship = center_ship(@)], "ship_hit"))
    ELSE w

\* step (2): the fleet against the left edge of the screen
collide_left(w) ==
    IF check_fleet_left(w.alien_fleet)
    THEN check_game_status(Did(w, "fleet_left"))
    ELSE w

\* step (3): the bullets against the fleet, and the score
collide_bullets(w) ==
    LET c == groupcollide(w.alien_fleet.fleet, w.arsenal, w.settings)
        w1 == [w EXCEPT !.alien_fleet.fleet = c.fleet, !.arsenal = c.arsenal]
    IN  IF c.crashed # <<>>
        THEN Did([w1 EXCEPT !.stats = update(@, w.settings, c.crashed)], "score")
        ELSE w1

\* step (4) without settings.increase_difficulty()
collide_cleared_same_speed(w) ==
    IF check_destroyed_status(w.alien_fleet)
    THEN LET w1 == reset_level(Did(w, "cleared"))
         IN  Did([w1 EXCEPT !.stats = update_level(@)], "level_up")
    ELSE w

\* step (4): the fleet destroyed
collide_cleared(w) ==
    IF check_destroyed_status(w.alien_fleet)
    THEN LET w1 == reset_level(Did(w, "cleared"))
         IN  Did([w1 EXCEPT !.settings = increase_difficulty(@),
                            !.stats = update_level(@)], "level_up")
    ELSE w

\* _check_collisions with the bullets resolved before the ship and the
\* left edge
check_collisions_bullets_first(w) ==
    collide_cleared(collide_left(collide_ship(collide_bullets(w))))

check_collisions(w) ==
    collide_cleared(collide_bullets(collide_left(collide_ship(w))))

\* restart_game without settings.initialize_dynamic_settings()
restart_game_keeps_speed(w) ==
    LET w1 == [w EXCEPT !.stats = reset_stats(@, initialize_dynamic_settings)]
        w2 == reset_level(Did(w1, "restart"))
    IN  [w2 EXCEPT !.ship = center_ship(@), !.game_active = TRUE]

restart_game(w) ==
    LET w1 == [w EXCEPT !.settings = initialize_dynamic_settings,
                        !.stats = reset_stats(@, initialize_dynamic_settings)]
        w2 == reset_level(Did(w1, "restart"))
    IN  [w2 EXCEPT !.ship = center_ship(@), !.game_active = TRUE]

\* the body of the loop of run_game after _check_events
frame(w) ==
    IF w.game_active
    THEN check_collisions(update_fleet(ship_update(Did(w, "update"))))
    ELSE w


(***************************************************************************)
(* The input collaborator: the events of pygame.event.get().               *)
(***************************************************************************)
Keys == {"K_UP", "K_DOWN", "K_SPACE", "K_q"}

\* Button.__init__: a button_w x button_h rect centred on the screen
button_rect ==
    Rect(screen_w \div 2 - button_w \div 2, screen_h \div 2 - button_h \div 2,
         button_w, button_h)

\* Button.check_clicked: rect.collidepoint
check_clicked(pos) ==
    /\ button_rect.x <= pos.x /\ pos.x < button_rect.x + button_rect.w
    /\ button_rect.y <= pos.y /\ pos.y < button_rect.y + button_rect.h

\* where the mouse may be: on the Play button's rect, and off it
MousePositions == {[x |-> screen_w \div 2, y |-> screen_h \div 2], [x |-> 0, y |-> 0]}

(***************************************************************************)
(* scores_file.  Its content is missing (no such file), a text of some     *)
(* bytes that json.loads rejects (none at all: an empty file), or the      *)
(* record json.dumps({'hi_score': h}, indent=4) writes, 20 bytes and the   *)
(* digits of h.  A write_text succeeds or raises FileNotFoundError (no     *)
(* such directory) or PermissionError (path not writable).                 *)
(***************************************************************************)
NoFile == [kind |-> "missing", size |-> 0, hi_score |-> 0]
Text(n) == [kind |-> "text", size |-> n, hi_score |-> 0]

RECURSIVE Digits(_)
Digits(h) == IF h < 10 THEN 1 ELSE 1 + Digits(h \div 10)

Record(h) == [kind |-> "record", size |-> 20 + Digits(h), hi_score |-> h]

Writes == {"ok", "FileNotFoundError", "PermissionError"}

\* Path.write_text
write_text(file, contents, io) ==
    IF io = "ok" THEN [file |-> contents, raised |-> "none"]
    ELSE [file |-> file, raised |-> io]

\* GameStats.save_scores: the file after the call, the exception that leaves
\* it, and what was done
save_scores(st, file, io) ==
    LET wr == write_text(file, Record(st.hi_score), io)
    IN  [file |-> wr.file,
         raised |-> IF wr.raised = "FileNotFoundError" THEN "none" ELSE wr.raised,
         log |-> IF wr.raised = "none" THEN <<"save_scores">>
                 ELSE IF wr.raised = "FileNotFoundError"
                      THEN <<"save_scores", "write_failed">>
                      ELSE <<"save_scores", "write_failed", "crash">>]

\* the size of the method object self.path.stat, which the code compares
\* with 20: it does not depend on the file
stat_sizeof == 48

\* GameStats.init_saved_scores: hi_score, the file after the call, the
\* exception that leaves it, and what was done
init_saved_scores(file, io) ==
    IF file.kind # "missing" /\ stat_sizeof > 20
    THEN IF file.kind = "record"
         THEN [hi_score |-> file.hi_score, file |-> file, raised |-> "none",
               log |-> <<"init_saved_scores">>]
         ELSE [hi_score |-> -1, file |-> file, raised |-> "JSONDecodeError",
               log |-> <<"init_saved_scores", "crash">>]
    ELSE LET sv == save_scores([hi_score |-> 0], file, io)
         IN  [hi_score |-> 0, file |-> sv.file, raised |-> sv.raised,
              log |-> <<"init_saved_scores">> \o sv.log]

RECURSIVE DidAll(_, _)
DidAll(w, whats) ==
    IF whats = <<>> THEN w ELSE DidAll(Did(w, Head(whats)), Tail(whats))

\* the objects of w become the next state
Commit(w) ==
    /\ settings' = w.settings
    /\ stats' = w.stats
    /\ ship' = w.ship
    /\ arsenal' = w.arsenal
    /\ alien_fleet' = w.alien_fleet
    /\ game_active' = w.game_active
    /\ log' = w.log

\* event.type == pygame.QUIT
EvQuit(io) ==
    /\ running
    /\ running' = FALSE
    /\ saved' = save_scores(stats, saved, io).file
    /\ Commit(DidAll(Did(World, "quit"), save_scores(stats, saved, io).log))
    /\ UNCHANGED tick

check_keydown_event(w, key) ==
    CASE key = "K_UP"    -> [w EXCEPT !.ship.moving_up = TRUE]
      [] key = "K_DOWN"  -> [w EXCEPT !.ship.moving_down = TRUE]
      [] key = "K_SPACE" ->
            LET f == fire_bullet(w.arsenal, w.ship, w.settings)
            IN  Did([w EXCEPT !.arsenal = f.arsenal],
                    IF f.fired THEN "fired" ELSE "fire_failed")
      [] OTHER           -> w

\* event.type == pygame.KEYDOWN, handled only while game_active
EvKeyDown(key, io) ==
    /\ running
    /\ IF game_active /\ key = "K_q"
       THEN /\ running' = FALSE
            /\ saved' = save_scores(stats, saved, io).file
            /\ Commit(DidAll(Did(World, "quit"), save_scores(stats, saved, io).log))
       ELSE /\ Commit(IF game_active THEN check_keydown_event(World, key)
                      ELSE Did(World, "ignored"))
            /\ UNCHANGED <<running, saved>>
    /\ UNCHANGED tick

check_keyup_event(w, key) ==
    CASE key = "K_UP"    -> [w EXCEPT !.ship.moving_up = FALSE]
      [] key = "K_DOWN"  -> [w EXCEPT !.ship.moving_down = FALSE]
      [] OTHER           -> w

\* event.type == pygame.KEYUP
EvKeyUp(key) ==
    /\ running
    /\ IF key = "K_q"
       THEN /\ running' = FALSE
            /\ Commit(Did(World, "quit"))
            /\ UNCHANGED saved
       ELSE /\ Commit(check_keyup_event(World, key))
            /\ UNCHANGED <<running, saved>>
    /\ UNCHANGED tick

check_button_clicked(w, pos) ==
    IF check_clicked(pos) THEN restart_game(w) ELSE w

\* event.type == pygame.MOUSEBUTTONDOWN
EvMouseDown(pos) ==
    /\ running
    /\ Commit(check_button_clicked(World, pos))
    /\ UNCHANGED <<running, saved>>
    /\ UNCHANGED tick

\* run_game: the rest of one iteration of the loop, after _check_events
Frame ==
    /\ running /\ tick < MaxFrames
    /\ Commit(frame(World))
    /\ tick' = tick + 1
    /\ UNCHANGED <<running, saved>>

\* run_game: the same iteration in a run that is followed to its end; tick
\* counts them modulo MaxFrames + 1
RunFrame ==
    /\ running
    /\ Commit(frame(World))
    /\ tick' = (tick + 1) % (MaxFrames + 1)
    /\ UNCHANGED <<running, saved>>

\* run_game: `while self.running` goes round without waiting, so with the
\* game active an iteration that updates and resolves is always due; this is
\* what it does to tick
FrameDue ==
    /\ running /\ game_active
    /\ tick' = (tick + 1) % (MaxFrames + 1)

(***************************************************************************)
(* Start states.                                                           *)
(***************************************************************************)
\* Settings.__init__: fleet_direction
fleet_direction == 1

\* the hi_score the record in scores_file may hold when the program starts
SavedScores == {0, 100}

\* AlienInvasion.__init__: AlienFleet.__init__ creates the fleet, and
\* __init__ calls create_fleet once more on the same group
Constructed(h) ==
    [settings |-> initialize_dynamic_settings,
     stats |-> reset_stats([ships_left |-> 0, score |-> 0, level |-> 0,
                            max_score |-> 0, hi_score |-> h],
                           initialize_dynamic_settings),
     ship |-> center_ship([y |-> 0, moving_up |-> FALSE, moving_down |-> FALSE]),
     arsenal |-> <<>>,
     alien_fleet |-> [fleet |-> create_fleet \o create_fleet,
                      fleet_direction |-> fleet_direction,
                      fleet_drop_speed |-> initialize_dynamic_settings.fleet_drop_speed],
     game_active |-> FALSE,
     log |-> <<>>]

\* the program after AlienInvasion.__init__ found the record of hi_score h
Title(h) ==
    /\ settings = Constructed(h).settings
    /\ stats = Constructed(h).stats
    /\ ship = Constructed(h).ship
    /\ arsenal = Constructed(h).arsenal
    /\ alien_fleet = Constructed(h).alien_fleet
    /\ game_active = Constructed(h).game_active
    /\ running = TRUE
    /\ saved = Record(h)
    /\ tick = 0
    /\ log = <<>>

RECURSIVE Scaled(_)
\* the settings of a level: increase_difficulty once per level cleared
Scaled(level) ==
    IF level <= 1 THEN initialize_dynamic_settings
    ELSE increase_difficulty(Scaled(level - 1))

RECURSIVE Pick(_, _, _)
\* the aliens of seq whose place in the layout is in cells, in order
Pick(seq, i, cells) ==
    IF i > Len(seq) THEN <<>>
    ELSE (IF i \in cells THEN <<seq[i]>> ELSE <<>>) \o Pick(seq, i + 1, cells)

AllCells == 1..Len(create_fleet)

(***************************************************************************)
(* A state of a game being played: level p.level with p.ships_left ships,  *)
(* the aliens of the layout at the places p.cells still alive, the fleet   *)
(* p.drops drops and p.steps steps of fleet_speed away from its layout and *)
(* moving in direction p.dir, the ship at p.ship_y, p.bullets in flight.   *)
(* The score is that of the aliens destroyed so far; nothing was saved     *)
(* since the program started with an empty record.                         *)
(***************************************************************************)
PlayingWorld(p) ==
    LET s      == Scaled(p.level)
        killed == Len(create_fleet) * (p.level - 1)
                      + Len(create_fleet) - Cardinality(p.cells)
        layout == Pick(create_fleet, 1, p.cells)
    IN  [settings |-> s,
         stats |-> [ships_left |-> p.ships_left, score |-> killed * s.alien_points,
                    level |-> p.level, max_score |-> killed * s.alien_points,
                    hi_score |-> killed * s.alien_points],
         ship |-> [y |-> Px(p.ship_y), moving_up |-> FALSE,
                   moving_down |-> p.moving_down],
         arsenal |-> p.bullets,
         alien_fleet |->
              [fleet |-> [i \in 1..Len(layout) |->
                            [x |-> layout[i].x - p.drops * Px(s.fleet_drop_speed),
                             y |-> layout[i].y + p.steps * s.fleet_speed]],
               fleet_direction |-> p.dir,
               fleet_drop_speed |-> s.fleet_drop_speed],
         game_active |-> TRUE,
         log |-> <<>>]

Playing(p) ==
    LET w == PlayingWorld(p)
    IN  /\ settings = w.settings
        /\ stats = w.stats
        /\ ship = w.ship
        /\ arsenal = w.arsenal
        /\ alien_fleet = w.alien_fleet
        /\ game_active = w.game_active
        /\ log = w.log
        /\ running = TRUE
        /\ saved = Record(0)
        /\ tick = 0

Lives == 0..initialize_dynamic_settings.starting_ship_count
StartLevels == 1..MaxLevel

\* the whole fleet, left alone since the level began, one frame before its
\* sixteenth drop carries it onto the ship
AboutToRam ==
    {[level |-> 1, ships_left |-> n, cells |-> AllCells, drops |-> 15,
      steps |-> -12, dir |-> -1, ship_y |-> 380, moving_down |-> FALSE,
      bullets |-> <<>>] : n \in Lives}

\* one alien left, at the top, about to drop past the left edge; the ship
\* at the bottom
AboutToPass ==
    {[level |-> 1, ships_left |-> n, cells |-> {1}, drops |-> 18,
      steps |-> -12, dir |-> -1, ship_y |-> 760, moving_down |-> FALSE,
      bullets |-> <<>>] : n \in {0, 2}}

\* two aliens left: the next drop carries one past the left edge and the
\* other onto the ship
AboutToRamAndPass ==
    {[level |-> 1, ships_left |-> n, cells |-> {2, 10}, drops |-> 18,
      steps |-> -12, dir |-> -1, ship_y |-> 40, moving_down |-> FALSE,
      bullets |-> <<>>] : n \in {0, 2}}

\* one alien left, in front of the ship's gun
LastAlien ==
    {[level |-> l, ships_left |-> 3, cells |-> {1}, drops |-> 15,
      steps |-> -8, dir |-> 1, ship_y |-> 10, moving_down |-> FALSE,
      bullets |-> <<>>] : l \in StartLevels}

\* two aliens left and two bullets in flight, fired two frames apart from a
\* ship moving down, that reach them in the same frame
LastTwoAliens ==
    {[level |-> 1, ships_left |-> 3, cells |-> {1, 2}, drops |-> 15,
      steps |-> 7, dir |-> 1, ship_y |-> 150, moving_down |-> TRUE,
      bullets |-> <<[x |-> Px(40), y |-> 138], [x |-> Px(0), y |-> 158]>>]}

\* two aliens left, side by side in the top row of the layout, and one
\* bullet, fired four frames ago, under the first of them: in the next frame
\* the fleet's step down brings both aliens onto the bullet
BulletAcrossTwoAliens ==
    {[level |-> 1, ships_left |-> 3, cells |-> {1, 10}, drops |-> 15,
      steps |-> 7, dir |-> 1, ship_y |-> 130, moving_down |-> FALSE,
      bullets |-> <<[x |-> Px(80), y |-> 138]>>]}

\* the steps of fleet_speed that carry the bottom row of a fresh layout,
\* moving down, to the bottom edge of the screen
StepsToEdge(level) ==
    CHOOSE n \in 1..24 :
        LET y(k) == create_fleet[Len(create_fleet)].y + k * Scaled(level).fleet_speed
        IN  /\ Trunc(y(n)) + alien_h >= screen_h
            /\ Trunc(y(n - 1)) + alien_h < screen_h

\* the whole fleet, left alone since the level began, at the bottom edge:
\* the next frame is its first drop
AboutToDrop ==
    {[level |-> l, ships_left |-> 3, cells |-> AllCells, drops |-> 0,
      steps |-> StepsToEdge(l), dir |-> 1, ship_y |-> 380, moving_down |-> FALSE,
      bullets |-> <<>>] : l \in StartLevels}

Snapshots ==
    AboutToRam \cup AboutToPass \cup AboutToRamAndPass \cup LastAlien
        \cup LastTwoAliens \cup BulletAcrossTwoAliens \cup AboutToDrop

Init ==
    \/ \E h \in SavedScores : Title(h)
    \/ \E p \in Snapshots : Playing(p)

Next ==
    \/ EvQuit("ok")
    \/ \E key \in Keys :
          (key = "K_SPACE" => Len(arsenal) < MaxShots) /\ EvKeyDown(key, "ok")
    \/ \E key \in Keys : EvKeyUp(key)
    \/ \E pos \in MousePositions : EvMouseDown(pos)
    \/ Frame

Spec == Init /\ [][Next]_vars


(***************************************************************************)
(* The arsenal at its cap: fire requests without the player's restraint,   *)
(* from the title screen and from the fleet about to ram the ship.         *)
(***************************************************************************)
InitArsenal ==
    \/ Title(0)
    \/ \E p \in AboutToRam : Playing(p)

NextArsenal ==
    \/ EvKeyDown("K_SPACE", "ok")
    \/ EvMouseDown([x |-> screen_w \div 2, y |-> screen_h \div 2])
    \/ (tick < MaxBurstFrames /\ Frame)

SpecArsenal == InitArsenal /\ [][NextArsenal]_vars

(***************************************************************************)
(* The layout of the fleet on other screens: Settings with the dimensions  *)
(* of the program, or with small ones; AlienFleet.__init__ starts with an  *)
(* empty group and create_fleet is called on it, and once more by          *)
(* AlienInvasion.__init__.                                                 *)
(***************************************************************************)
LayoutSettings ==
    {[screen_w |-> screen_w, screen_h |-> screen_h,
      alien_w |-> alien_w, alien_h |-> alien_h]}
    \cup {[screen_w |-> sw, screen_h |-> sh, alien_w |-> aw, alien_h |-> ah] :
             sw \in 1..MaxScreen, sh \in 1..MaxScreen,
             aw \in 1..MaxUnit, ah \in 1..MaxUnit}

InitLayout ==
    \E d \in LayoutSettings :
        /\ settings = d @@ initialize_dynamic_settings
        /\ stats = reset_stats([ships_left |-> 0, score |-> 0, level |-> 0,
                                max_score |-> 0, hi_score |-> 0],
                               initialize_dynamic_settings)
        /\ ship = center_ship([y |-> 0, moving_up |-> FALSE, moving_down |-> FALSE])
        /\ arsenal = <<>>
        /\ alien_fleet = [fleet |-> <<>>,
                          fleet_direction |-> fleet_direction,
                          fleet_drop_speed |-> initialize_dynamic_settings.fleet_drop_speed]
        /\ game_active = FALSE
        /\ running = TRUE
        /\ saved = Record(0)
        /\ tick = 0
        /\ log = <<>>

\* AlienFleet.create_fleet: the aliens are added to the group
CreateFleet ==
    /\ Len(log) < 2
    /\ alien_fleet' = [alien_fleet EXCEPT !.fleet =
            @ \o create_fleet_for(settings.alien_h, settings.alien_w,
                                  settings.screen_h, settings.screen_w)]
    /\ log' = Append(log, "create_fleet")
    /\ UNCHANGED <<settings, stats, ship, arsenal, game_active, running, saved, tick>>

NextLayout == CreateFleet

SpecLayout == InitLayout /\ [][NextLayout]_vars

(***************************************************************************)
(* The program from before its start, with whatever scores_file holds, and *)
(* with writes that may fail.  Before AlienInvasion.__init__ there are no  *)
(* objects: running is FALSE, nothing is logged, and the other variables   *)
(* hold what the constructors will set, hi_score not yet (-1).             *)
(***************************************************************************)
StoredFiles ==
    {NoFile, Text(0), Text(5), Text(30)} \cup {Record(h) : h \in SavedScores}

NotStarted == ~running /\ log = <<>>

InitStore ==
    /\ saved \in StoredFiles
    /\ settings = Constructed(-1).settings
    /\ stats = Constructed(-1).stats
    /\ ship = Constructed(-1).ship
    /\ arsenal = Constructed(-1).arsenal
    /\ alien_fleet = Constructed(-1).alien_fleet
    /\ game_active = FALSE
    /\ running = FALSE
    /\ tick = 0
    /\ log = <<>>

\* AlienInvasion.__init__: GameStats.__init__ calls init_saved_scores; an
\* exception that leaves it ends the program before the loop
Startup(io) ==
    LET r == init_saved_scores(saved, io)
    IN  /\ NotStarted
        /\ saved' = r.file
        /\ IF r.raised = "none"
           THEN /\ Commit(DidAll(Constructed(r.hi_score), r.log))
                /\ running' = TRUE
           ELSE /\ log' = r.log
                /\ UNCHANGED <<settings, stats, ship, arsenal, alien_fleet,
                               game_active, running>>
        /\ UNCHANGED tick

NextStore ==
    \/ \E io \in Writes : Startup(io)
    \/ \E io \in Writes : EvQuit(io)
    \/ \E key \in Keys : \E io \in Writes :
          (key = "K_SPACE" => Len(arsenal) < MaxShots) /\ EvKeyDown(key, io)
    \/ \E key \in Keys : EvKeyUp(key)
    \/ \E pos \in MousePositions : EvMouseDown(pos)
    \/ Frame

SpecStore == InitStore /\ [][NextStore]_vars

(***************************************************************************)
(* Bullets followed to the right edge: the last ship at the top of the     *)
(* screen, one alien left that comes down the screen and back up to the    *)
(* ship, out of the bullets' way; the player fires single shots, the next  *)
(* when the arsenal is empty.  The loop of run_game keeps running frames.   *)
(***************************************************************************)
\* the advances that take a bullet from the ship to its last position left
\* of screen_w + 80
LastAdvance(level) ==
    CHOOSE n \in 1..60 :
        LET s == Scaled(level)
        IN  /\ Trunc(n * s.bullet_speed) + s.bullet_h < screen_w + offscreen_margin
            /\ Trunc((n + 1) * s.bullet_speed) + s.bullet_h
                   >= screen_w + offscreen_margin

\* two bullets in flight, fired from the ship two frames apart, the first
\* five advances short of its last position
TwoInFlight(level) ==
    <<[x |-> (LastAdvance(level) - 5) * Scaled(level).bullet_speed, y |-> 8],
      [x |-> (LastAdvance(level) - 7) * Scaled(level).bullet_speed, y |-> 8]>>

InFlight ==
    UNION {{[level |-> l, ships_left |-> 0, cells |-> {1}, drops |-> 16,
             steps |-> 100, dir |-> 1, ship_y |-> 0, moving_down |-> FALSE,
             bullets |-> bs] : bs \in {<<>>, TwoInFlight(l)}} :
           l \in StartLevels}

InitFlight == \E p \in InFlight : Playing(p)

NextFlight ==
    \/ (arsenal = <<>> /\ EvKeyDown("K_SPACE", "ok"))
    \/ RunFrame

SpecFlight == InitFlight /\ [][NextFlight]_vars /\ WF_tick(FrameDue)

(***************************************************************************)
(* A session in which the player never fires, followed to its end: the     *)
(* levels begin with the whole fleet and the direction the last level left, *)
(* or with the last aliens about to pass the left edge; the player sets    *)
(* the ship's course when an attempt at the level begins and holds it.      *)
(* The loop of run_game keeps running frames.                               *)
(***************************************************************************)
FreshLevel ==
    {[level |-> l, ships_left |-> n, cells |-> AllCells, drops |-> 0,
      steps |-> 0, dir |-> d, ship_y |-> 380, moving_down |-> FALSE,
      bullets |-> <<>>] : l \in StartLevels, n \in Lives, d \in {1, -1}}

IdleStarts == FreshLevel \cup AboutToPass \cup AboutToRamAndPass

InitIdle == \E p \in IdleStarts : Playing(p)

\* the level has just been laid out: no frame has moved the fleet since
AttemptBegins ==
    /\ game_active
    /\ log = <<>> \/ \E i \in DOMAIN log : log[i] = "reset_level"

NextIdle ==
    \/ \E key \in {"K_UP", "K_DOWN"} : AttemptBegins /\ EvKeyDown(key, "ok")
    \/ \E key \in {"K_UP", "K_DOWN"} : AttemptBegins /\ EvKeyUp(key)
    \/ RunFrame

SpecIdle == InitIdle /\ [][NextIdle]_vars /\ WF_tick(FrameDue)

(***************************************************************************)
(* Properties.                                                             *)
(***************************************************************************)
InLog(l, what) == \E i \in DOMAIN l : l[i] = what
Count(l, what) == Cardinality({i \in DOMAIN l : l[i] = what})

\* the objects as the next Frame finds them when it starts check_collisions:
\* after Ship.update and AlienFleet.update_fleet
Resolving == update_fleet(ship_update(Did(World, "update")))
\* ... and as its steps (2), (3) and (4) find them
AtLeftCheck == collide_left(collide_ship(Resolving))
AtClearedCheck == collide_bullets(AtLeftCheck)

IsFrame == tick' # tick

\* C1 (as claimed): the ship-enemy collision handled with one ship left, the
\* third of a session that started with three, makes ships_left 0 and
\* game_active false in that same frame.
C1_ThirdCollisionEndsGame ==
    [][(InLog(log', "ship_hit") /\ stats.ships_left = 1)
          => (stats'.ships_left = 0 /\ ~game_active')]_vars

\* C1 (amended): a restart gives three ships; every ship-enemy collision
\* handled with ships left takes exactly one and leaves the game active, so
\* the third collision makes ships_left 0 with game_active still true; the
\* collision handled with ships_left = 0, the fourth, makes game_active
\* false.
C1_FourthCollisionEndsGame ==
    [][/\ InLog(log', "restart") => stats'.ships_left = 3
       /\ InLog(log', "ship_hit") =>
             IF stats.ships_left > 0
             THEN stats'.ships_left = stats.ships_left - 1 /\ game_active'
             ELSE stats'.ships_left = 0 /\ ~game_active']_vars

\* C1 witness: the third collision has been handled: no ship is left and
\* the game is still active.
C1_ThirdCollisionSurvived ==
    InLog(log, "ship_hit") /\ stats.ships_left = 0 /\ game_active

\* C2: a life-loss event (ship hit, or an alien past the left edge) handled
\* with ships left takes exactly one ship, empties the arsenal, replaces the
\* fleet by a fresh layout, keeps score and level and keeps the game active;
\* game_active turns false only in the handling of a life-loss event with no
\* ship left, and that handling changes no statistic.
C2_LifeLoss ==
    [][/\ ((InLog(log', "ship_hit") \/ InLog(log', "fleet_left"))
              /\ stats.ships_left > 0) => InLog(log', "life_lost")
       /\ InLog(log', "life_lost") =>
             /\ stats.ships_left > 0
             /\ stats'.ships_left = stats.ships_left - 1
             /\ arsenal' = <<>>
             /\ alien_fleet'.fleet = create_fleet
             /\ stats'.score = stats.score
             /\ stats'.level = stats.level
             /\ game_active'
       /\ (game_active /\ ~game_active') =>
             (InLog(log', "game_over") /\ stats.ships_left = 0)
       /\ InLog(log', "game_over") =>
             \A w \in {Did([Resolving EXCEPT !.ship = center_ship(@)], "ship_hit"),
                       Did(collide_ship(Resolving), "fleet_left")} :
                 /\ w.stats.ships_left = 0
                 /\ check_game_status(w).stats = w.stats
                 /\ ~check_game_status(w).game_active]_vars

\* C2 witness: an alien past the left edge has cost a ship.
C2_LostShipToPassingAlien ==
    InLog(log, "fleet_left") /\ InLog(log, "life_lost") /\ ~InLog(log, "ship_hit")

\* C3: no frame takes more than one ship, also when the collision checks
\* start with the ship on an alien and an alien past the left edge.
C3_OneShipPerFrame ==
    [][/\ stats'.ships_left >= stats.ships_left - 1
       /\ Count(log', "life_lost") <= 1]_vars

\* C3 witness: the state a frame leaves when its collision checks started
\* with the ship on an alien and another alien past the left edge, with
\* ships left: one ship was taken.
C3_RammedAndPassedAtOnce ==
    \E p \in AboutToRamAndPass :
        LET w0 == PlayingWorld(p)
            w  == update_fleet(ship_update(Did(w0, "update")))
        IN  /\ p.ships_left > 0
            /\ ship_collides(w.ship, w.alien_fleet.fleet)
            /\ check_fleet_left(w.alien_fleet)
            /\ tick = 1
            /\ log = frame(w0).log
            /\ stats = frame(w0).stats
            /\ stats.ships_left = p.ships_left - 1

\* C4 (as claimed): from the moment game_active is set false, the rest of
\* that frame's collision checks included, until a restart, the statistics,
\* the speeds, the aliens of the fleet and the arsenal do not change.
C4_NothingAfterGameOver ==
    [][/\ InLog(log', "game_over") =>
             /\ stats' = stats
             /\ settings' = settings
             /\ alien_fleet' = Resolving.alien_fleet
             /\ arsenal' = Resolving.arsenal
       /\ (~game_active /\ ~game_active') =>
             /\ stats' = stats
             /\ settings' = settings
             /\ alien_fleet' = alien_fleet
             /\ arsenal' = arsenal]_vars

\* C5: a frame that finds the fleet empty at step (4) resets the level once
\* (arsenal empty, fresh fleet), multiplies the three speeds by the scale
\* factor and adds one to the level (1 becomes 2), and that step changes
\* neither score nor ships; any other frame leaves level and speeds alone.
C5_LevelClear ==
    [][IsFrame =>
          IF game_active /\ check_destroyed_status(AtClearedCheck.alien_fleet)
          THEN /\ Count(log', "level_up") = 1
               /\ Count(log', "reset_level") = 1
               /\ arsenal' = <<>>
               /\ alien_fleet'.fleet = create_fleet
               /\ settings'.ship_speed * difficulty_den
                     = settings.ship_speed * difficulty_num
               /\ settings'.bullet_speed * difficulty_den
                     = settings.bullet_speed * difficulty_num
               /\ settings'.fleet_speed * difficulty_den
                     = settings.fleet_speed * difficulty_num
               /\ stats'.level = stats.level + 1
               /\ (stats.level = 1 => stats'.level = 2)
               /\ stats'.score = AtClearedCheck.stats.score
               /\ stats'.ships_left = AtClearedCheck.stats.ships_left
               /\ stats'.ships_left = stats.ships_left
          ELSE /\ stats'.level = stats.level
               /\ settings' = settings]_vars

\* C5 witness: the state a frame leaves when one call destroyed the two
\* aliens that were left: level 2.
C5_TwoDestroyedAtOnce ==
    \E p \in LastTwoAliens :
        LET w0 == PlayingWorld(p)
            w  == update_fleet(ship_update(Did(w0, "update")))
        IN  /\ Len(w.alien_fleet.fleet) = 2
            /\ Len(groupcollide(w.alien_fleet.fleet, w.arsenal, w.settings).crashed) = 2
            /\ tick = 1
            /\ log = frame(w0).log
            /\ InLog(log, "level_up")
            /\ stats = frame(w0).stats
            /\ stats.level = 2

\* C6: right after a restart the speeds have their base values, ships_left
\* is the starting count, score 0, level 1, the arsenal empty, the fleet a
\* fresh layout, the ship centred and the game active.
C6_Restart ==
    InLog(log, "restart") =>
        /\ settings.ship_speed = initialize_dynamic_settings.ship_speed
        /\ settings.bullet_speed = initialize_dynamic_settings.bullet_speed
        /\ settings.fleet_speed = initialize_dynamic_settings.fleet_speed
        /\ stats.ships_left = initialize_dynamic_settings.starting_ship_count
        /\ stats.score = 0
        /\ stats.level = 1
        /\ arsenal = <<>>
        /\ alien_fleet.fleet = create_fleet
        /\ ship_rect(ship).y + ship_rect(ship).h \div 2 = screen_h \div 2
        /\ ship.y = Px(ship_rect(ship).y)
        /\ game_active

\* C6 witness: a restart of a game that had reached level 2 and scored.
C6_RestartedFromLevelTwo ==
    /\ InLog(log, "restart")
    /\ stats.max_score > Len(create_fleet) * initialize_dynamic_settings.alien_points

\* C7 (as claimed): the restart that resets the statistics is taken only
\* while game_active is false.
C7_RestartOnlyFromTitle ==
    [][InLog(log', "restart") => ~game_active]_vars

\* C8 (as claimed): whenever the program has quit, the record in scores_file
\* holds the current hi_score.
C8_QuitSaves ==
    ~running => saved = Record(stats.hi_score)

\* C9: the arsenal never holds more than bullet_amount bullets; a fire
\* request below the cap succeeds and adds exactly one bullet, a fire
\* request at the cap fails and leaves the arsenal as it is.
C9_BulletCap ==
    [][/\ Len(arsenal') <= settings'.bullet_amount
       /\ InLog(log', "fired") =>
             /\ Len(arsenal) < settings.bullet_amount
             /\ Len(arsenal') = Len(arsenal) + 1
             /\ SubSeq(arsenal', 1, Len(arsenal)) = arsenal
       /\ InLog(log', "fire_failed") =>
             /\ Len(arsenal) = settings.bullet_amount
             /\ arsenal' = arsenal]_vars

\* C9 witness: the fifty-first fire request in a row has failed, fifty
\* bullets in the arsenal.
C9_FiftyFirstFails ==
    InLog(log, "fire_failed") /\ Len(arsenal) = 50

\* C10 (as claimed): the ship's rect is always inside the screen vertically.
C10_ShipInsideScreen ==
    /\ ship_rect(ship).y >= 0
    /\ ship_rect(ship).y + ship_rect(ship).h <= screen_h

\* the aliens of w that overlap some bullet of w, and the other way round
AlienIsHit(a, w) ==
    \E i \in 1..Len(w.arsenal) :
        colliderect(alien_rect(a), bullet_rect(w.arsenal[i], w.settings))
BulletHits(b, w) ==
    \E i \in 1..Len(w.alien_fleet.fleet) :
        colliderect(alien_rect(w.alien_fleet.fleet[i]), bullet_rect(b, w.settings))

\* C11 (as claimed): the bullets-against-fleet step of a frame leaves no alien
\* that overlapped a bullet and no bullet that overlapped an alien, also when
\* one bullet overlaps two aliens; it leaves every other alien and bullet;
\* and it adds alien_points times the number of destroyed aliens to score.
C11_AllOverlappingRemoved ==
    [][(IsFrame /\ game_active) =>
          LET w == AtLeftCheck
              r == collide_bullets(w)
          IN  /\ r.alien_fleet.fleet =
                     SelectSeq(w.alien_fleet.fleet, LAMBDA a : ~AlienIsHit(a, w))
              /\ r.arsenal = SelectSeq(w.arsenal, LAMBDA b : ~BulletHits(b, w))
              /\ r.stats.score = w.stats.score + w.settings.alien_points
                     * (Len(w.alien_fleet.fleet) - Len(r.alien_fleet.fleet))
              /\ stats'.score = r.stats.score
              /\ \/ check_destroyed_status(r.alien_fleet)
                 \/ (alien_fleet' = r.alien_fleet /\ arsenal' = r.arsenal)]_vars

RECURSIVE Matched(_)
\* how many bullets the returned mapping matches with aliens
Matched(crashed) ==
    IF crashed = <<>> THEN 0 ELSE Len(Head(crashed).hits) + Matched(Tail(crashed))

\* C12: in one bullets-against-fleet call every removed bullet is matched
\* with exactly one destroyed alien of the returned mapping: the mapping
\* matches as many bullets as were removed, each with an alien it overlapped,
\* and a bullet matched with one alien is not matched with a later one.
C12_BulletConsumedOnce ==
    [][(IsFrame /\ game_active) =>
          LET w == AtLeftCheck
              c == groupcollide(w.alien_fleet.fleet, w.arsenal, w.settings)
          IN  /\ Matched(c.crashed) = Len(w.arsenal) - Len(c.arsenal)
              /\ Len(c.crashed) = Len(w.alien_fleet.fleet) - Len(c.fleet)
              /\ \A i \in 1..Len(c.crashed) :
                    /\ c.crashed[i].hits # <<>>
                    /\ \A k \in 1..Len(c.crashed[i].hits) :
                          /\ colliderect(alien_rect(c.crashed[i].alien),
                                         bullet_rect(c.crashed[i].hits[k], w.settings))
                          /\ \A j \in 1..Len(c.arsenal) :
                                c.arsenal[j] # c.crashed[i].hits[k]
              /\ stats'.score = w.stats.score + w.settings.alien_points * Len(c.crashed)
              /\ check_destroyed_status([fleet |-> c.fleet])
                    \/ (alien_fleet'.fleet = c.fleet /\ arsenal' = c.arsenal)]_vars

\* C12 witness: the state a frame leaves when its bullets-against-fleet call
\* found one bullet overlapping two aliens: the bullet is gone with the first
\* alien, the second alien is still there.
C12_OneBulletTwoAliens ==
    \E p \in BulletAcrossTwoAliens :
        LET w0 == PlayingWorld(p)
            w  == update_fleet(ship_update(Did(w0, "update")))
        IN  /\ Len(w.arsenal) = 1
            /\ \A i \in 1..2 : AlienIsHit(w.alien_fleet.fleet[i], w)
            /\ tick = 1
            /\ log = frame(w0).log
            /\ stats = frame(w0).stats
            /\ arsenal = <<>>
            /\ alien_fleet.fleet = <<w.alien_fleet.fleet[2]>>

\* C13: after every step hi_score >= max_score >= score, across restarts
\* too, and no step (scoring, level reset, level advance, restart) makes
\* hi_score smaller.
C13_ScoreOrder ==
    [][/\ stats'.hi_score >= stats.hi_score
       /\ stats'.hi_score >= stats'.max_score
       /\ stats'.max_score >= stats'.score]_vars

\* C13 witness: a restart after aliens were destroyed: score is 0 again,
\* max_score and hi_score keep the best score.
C13_RestartKeepsBest ==
    /\ InLog(log, "restart")
    /\ stats.score = 0
    /\ stats.max_score > 0
    /\ stats.hi_score = stats.max_score

\* C14: ships_left >= 0, score >= 0 and level >= 1 after every step; a step
\* that is not a restart makes neither score nor level smaller and does not
\* add a ship.
C14_StatsRanges ==
    [][/\ stats'.ships_left >= 0
       /\ stats'.score >= 0
       /\ stats'.level >= 1
       /\ ~InLog(log', "restart") =>
             /\ stats'.score >= stats.score
             /\ stats'.level >= stats.level
             /\ stats'.ships_left <= stats.ships_left]_vars

\* C14 witness: a frame has handled a life-loss event with no ship left:
\* ships_left is still 0.
C14_NoShipBelowZero ==
    InLog(log, "game_over") /\ stats.ships_left = 0 /\ stats.score >= 0

\* the raw quotients of a layout: how many aliens fit in the screen's height,
\* and in half the screen's width
RawRows(s) ==
    CHOOSE q \in 0..s.screen_h :
        q * s.alien_h <= s.screen_h /\ (q + 1) * s.alien_h > s.screen_h
RawCols(s) ==
    CHOOSE q \in 0..s.screen_w :
        2 * q * s.alien_w <= s.screen_w /\ 2 * (q + 1) * s.alien_w > s.screen_w
FleetSize(s) == calculate_fleet_size(s.alien_h, s.screen_h, s.alien_w, s.screen_w)
IsDefaultScreen(s) ==
    /\ s.screen_w = 1200 /\ s.screen_h = 800
    /\ s.alien_w = 40 /\ s.alien_h = 40

\* C15: a raw quotient q >= 2 gives the count q - 1 when q is even and q - 2
\* when q is odd, an odd count; a 1200 x 800 screen with 40 x 40 aliens
\* gives 19 rows and 13 columns.
C15_FleetSizeOdd ==
    /\ RawRows(settings) >= 2 =>
          /\ FleetSize(settings).fleet_h =
                 (IF RawRows(settings) % 2 = 0 THEN RawRows(settings) - 1
                                               ELSE RawRows(settings) - 2)
          /\ FleetSize(settings).fleet_h % 2 = 1
    /\ RawCols(settings) >= 2 =>
          /\ FleetSize(settings).fleet_w =
                 (IF RawCols(settings) % 2 = 0 THEN RawCols(settings) - 1
                                               ELSE RawCols(settings) - 2)
          /\ FleetSize(settings).fleet_w % 2 = 1
    /\ IsDefaultScreen(settings) =>
          FleetSize(settings) = [fleet_h |-> 19, fleet_w |-> 13]

\* C15 witness: the fleet has been laid out on the 1200 x 800 screen, whose
\* quotients are 20 (even) and 15 (odd).
C15_DefaultScreenLaidOut ==
    /\ log = <<"create_fleet">>
    /\ IsDefaultScreen(settings)
    /\ RawRows(settings) = 20 /\ RawCols(settings) = 15

\* where the layout puts the alien of a grid cell
CellAlien(s, row, col) ==
    LET size == FleetSize(s)
        off  == calculate_offsets(s.alien_h, size.fleet_h, s.alien_w, size.fleet_w,
                                  s.screen_h, s.screen_w)
    IN  [x |-> Px(off.x_offset + col * s.alien_w),
         y |-> Px(off.y_offset + row * s.alien_h)]

\* the margins the layout leaves around the block of fleet_w x fleet_h cells:
\* above and below it on the screen, left and right of it in the right half
Margins(s) ==
    LET size == FleetSize(s)
        off  == calculate_offsets(s.alien_h, size.fleet_h, s.alien_w, size.fleet_w,
                                  s.screen_h, s.screen_w)
    IN  [top    |-> off.y_offset,
         bottom |-> s.screen_h - (off.y_offset + size.fleet_h * s.alien_h),
         left   |-> off.x_offset - s.screen_w \div 2,
         right  |-> s.screen_w - (off.x_offset + size.fleet_w * s.alien_w)]

\* C16: create_fleet on an empty group, for a layout whose raw quotients are
\* at least 2: there is an alien at the cell (row, col) exactly when row and
\* col are odd, ((rows-1)/2) * ((cols-1)/2) aliens in all (54 on the
\* 1200 x 800 screen), the alien of a cell at x_offset + col * alien_w,
\* y_offset + row * alien_h; the block is centred vertically on the screen
\* and horizontally in its right half (to the pixel the integer division
\* leaves), and every alien lies strictly inside the right half and
\* strictly inside the screen's height.
C16_LayoutCells ==
    (log = <<"create_fleet">> /\ RawRows(settings) >= 2 /\ RawCols(settings) >= 2) =>
        LET s    == settings
            rows == FleetSize(s).fleet_h
            cols == FleetSize(s).fleet_w
            f    == alien_fleet.fleet
            m    == Margins(s)
        IN  /\ \A row \in 0..(rows - 1) : \A col \in 0..(cols - 1) :
                  (\E i \in 1..Len(f) : f[i] = CellAlien(s, row, col))
                      <=> (row % 2 = 1 /\ col % 2 = 1)
            /\ \A i \in 1..Len(f) :
                  \E row \in 0..(rows - 1) : \E col \in 0..(cols - 1) :
                      f[i] = CellAlien(s, row, col)
            /\ \A i \in 1..Len(f) : \A j \in 1..Len(f) : f[i] = f[j] => i = j
            /\ Len(f) = ((rows - 1) \div 2) * ((cols - 1) \div 2)
            /\ IsDefaultScreen(s) => Len(f) = 54
            /\ m.bottom - m.top \in 0..1
            /\ m.right - m.left \in 0..2
            /\ IsDefaultScreen(s) => (m.bottom = m.top /\ m.right = m.left)
            /\ \A i \in 1..Len(f) :
                  /\ Px(s.screen_w \div 2) < f[i].x
                  /\ f[i].x + Px(s.alien_w) < Px(s.screen_w)
                  /\ 0 < f[i].y
                  /\ f[i].y + Px(s.alien_h) < Px(s.screen_h)

\* C16 witness: a fleet laid out on a small screen of odd width and height,
\* two aliens on a grid of 5 rows and 3 columns.
C16_SmallScreenLaidOut ==
    /\ log = <<"create_fleet">>
    /\ settings.screen_w = 9 /\ settings.screen_h = 7
    /\ settings.alien_w = 1 /\ settings.alien_h = 1
    /\ Len(alien_fleet.fleet) = 2

\* a step that is the start of the program
IsStartup == NotStarted /\ log' # <<>>

\* C17 (as claimed): a start with scores_file missing or empty, its write
\* not failing, sets hi_score to 0, writes the record of hi_score 0 and
\* completes.
C17_FreshStoreStarts ==
    [][(IsStartup /\ (saved = NoFile \/ saved = Text(0))
           /\ ~InLog(log', "write_failed")) =>
          /\ running'
          /\ ~InLog(log', "crash")
          /\ stats'.hi_score = 0
          /\ saved' = Record(0)]_vars

\* C18 (as claimed): a start with a scores_file that holds text json.loads
\* rejects, of any length, its write not failing, completes with hi_score 0
\* and a fresh record of hi_score 0 written.
C18_MalformedStoreStarts ==
    [][(IsStartup /\ saved.kind = "text" /\ saved.size > 0
           /\ ~InLog(log', "write_failed")) =>
          /\ running'
          /\ ~InLog(log', "crash")
          /\ stats'.hi_score = 0
          /\ saved' = Record(0)]_vars

\* C19 (as claimed): a write of the record that fails, for whatever reason,
\* is caught in save_scores: no exception leaves it, the statistics are
\* what they were, and the program goes on (at its start) or exits as it
\* does after a write that succeeded (at a quit).
C19_WriteFailureCaught ==
    [][InLog(log', "write_failed") =>
          /\ ~InLog(log', "crash")
          /\ IsStartup => (running' /\ stats'.hi_score = 0)
          /\ ~IsStartup => stats' = stats]_vars

\* C20 (as claimed): after a life loss for a ship-alien collision, after a
\* life loss for an alien past the left edge, after the level reset of a
\* cleared fleet and after a restart, the ship is at its centred position.
C20_ShipRecentred ==
    [][(InLog(log', "life_lost") \/ InLog(log', "level_up")
           \/ InLog(log', "restart")) =>
          ship'.y = center_ship(ship').y]_vars

\* an alien touches the top or the bottom edge of the screen
AtEdge(a) == Trunc(a.y) <= 0 \/ Trunc(a.y) + alien_h >= screen_h
AliensAtEdge(f) == {i \in 1..Len(f.fleet) : AtEdge(f.fleet[i])}

\* C21: fleet_direction is always +1 or -1; a frame that finds at least one
\* alien at the top or bottom edge negates the direction once and moves
\* every alien left by the drop distance, 40, however many aliens are at an
\* edge; a frame that finds none leaves direction and x alone; then every
\* alien moves vertically by fleet_speed times the direction as it is now.
C21_FleetAdvance ==
    [][/\ alien_fleet'.fleet_direction \in {1, -1}
       /\ (IsFrame /\ game_active) =>
             LET f0 == alien_fleet
                 f1 == update_fleet(World).alien_fleet
                 touched == AliensAtEdge(f0) # {}
             IN  /\ Len(f1.fleet) = Len(f0.fleet)
                 /\ f1.fleet_direction =
                        (IF touched THEN -1 * f0.fleet_direction
                                    ELSE f0.fleet_direction)
                 /\ \A i \in 1..Len(f0.fleet) :
                       /\ f1.fleet[i].x =
                              f0.fleet[i].x - (IF touched THEN Px(40) ELSE 0)
                       /\ f1.fleet[i].y =
                              f0.fleet[i].y + settings.fleet_speed * f1.fleet_direction
                 /\ alien_fleet'.fleet_direction = f1.fleet_direction
                 /\ log' = <<"update">> => alien_fleet' = f1]_vars

\* C21 witness: the state a frame leaves that found several aliens at the
\* bottom edge: one drop, the direction now -1.
C21_SeveralAliensAtEdge ==
    \E p \in AboutToDrop :
        LET w0 == PlayingWorld(p)
        IN  /\ Cardinality(AliensAtEdge(w0.alien_fleet)) > 1
            /\ tick = 1
            /\ log = <<"update">>
            /\ alien_fleet = frame(w0).alien_fleet
            /\ alien_fleet.fleet_direction = -1
            /\ alien_fleet.fleet[1].x = w0.alien_fleet.fleet[1].x - Px(40)

\* the step of _check_collisions an entry of the log belongs to
StepOf(what) ==
    CASE what = "ship_hit"   -> 1
      [] what = "fleet_left" -> 2
      [] what = "score"      -> 3
      [] what = "cleared"    -> 4
      [] OTHER               -> 0
Steps(l) == {i \in DOMAIN l : StepOf(l[i]) > 0}

\* C22: a frame resolves collisions in the order ship against fleet, fleet
\* against the left edge, bullets against fleet with the score, fleet
\* cleared; so a frame that takes a ship while ships are left has reset the
\* level before the bullets are resolved: score and level are as before the
\* frame, nothing is scored and no level is gained, also when a bullet
\* overlapped an alien at the start of the resolution.
C22_ResolutionOrder ==
    [][(IsFrame /\ game_active) =>
          /\ \A i, j \in Steps(log') : i < j => StepOf(log'[i]) < StepOf(log'[j])
          /\ InLog(log', "ship_hit") <=>
                 ship_collides(Resolving.ship, Resolving.alien_fleet.fleet)
          /\ InLog(log', "life_lost") =>
                 /\ stats'.ships_left = stats.ships_left - 1
                 /\ stats'.score = stats.score
                 /\ stats'.level = stats.level
                 /\ ~InLog(log', "score")
                 /\ ~InLog(log', "level_up")
                 /\ settings' = settings
                 /\ arsenal' = <<>>
                 /\ alien_fleet'.fleet = create_fleet]_vars

\* C22 witness: the state after a frame that took a ship, with ships left,
\* while the bullet fired just before overlapped an alien when the
\* resolution began; the score is still the one before the frame.
C22_LifeLostOverBulletHit ==
    \E p \in AboutToRam :
        LET w0 == check_keydown_event(PlayingWorld(p), "K_SPACE")
            r  == update_fleet(ship_update(Did(w0, "update")))
        IN  /\ p.ships_left > 0
            /\ Len(r.arsenal) = 1 /\ BulletHits(r.arsenal[1], r)
            /\ tick = 1
            /\ InLog(log, "life_lost")
            /\ stats = [w0.stats EXCEPT !.ships_left = p.ships_left - 1]
            /\ arsenal = <<>>

\* speed = base * difficulty_scale ^ (level - 1), without division
ScaledBy(speed, base, level) ==
    speed * Pow(difficulty_den, level - 1) = base * Pow(difficulty_num, level - 1)

\* C23: in every reachable state ship_speed, bullet_speed and fleet_speed are
\* their base values times difficulty_scale to the power level - 1, and
\* fleet_drop_speed, bullet_amount, alien_points and starting_ship_count are
\* their base values; the settings change only in a frame that gains a level
\* and in a restart.
C23_DifficultyScaled ==
    /\ [](/\ stats.level >= 1
          /\ ScaledBy(settings.ship_speed,
                      initialize_dynamic_settings.ship_speed, stats.level)
          /\ ScaledBy(settings.bullet_speed,
                      initialize_dynamic_settings.bullet_speed, stats.level)
          /\ ScaledBy(settings.fleet_speed,
                      initialize_dynamic_settings.fleet_speed, stats.level)
          /\ settings.fleet_drop_speed = initialize_dynamic_settings.fleet_drop_speed
          /\ settings.bullet_amount = initialize_dynamic_settings.bullet_amount
          /\ settings.alien_points = initialize_dynamic_settings.alien_points
          /\ settings.starting_ship_count =
                 initialize_dynamic_settings.starting_ship_count)
    /\ [][/\ settings' # settings =>
                 InLog(log', "level_up") \/ InLog(log', "restart")
          /\ stats'.level # stats.level =>
                 \/ (InLog(log', "restart") /\ stats'.level = 1)
                 \/ (Count(log', "level_up") = 1
                        /\ stats'.level = stats.level + 1)]_vars

\* C23 witness: the state after the frame that cleared level 2: level 3 and
\* speeds scaled twice.
C23_ScaledTwice ==
    /\ InLog(log, "level_up")
    /\ stats.level = 3
    /\ settings.fleet_speed * 100 = initialize_dynamic_settings.fleet_speed * 121
    /\ settings.fleet_speed > increase_difficulty(initialize_dynamic_settings).fleet_speed

\* the right edge of a bullet's rect
BulletRight(b) == Trunc(b.x) + settings.bullet_h
OffScreen(b) == BulletRight(b) >= screen_w + 80
\* the arsenal with every bullet moved right by bullet_speed
Advanced ==
    [i \in 1..Len(arsenal) |-> [arsenal[i] EXCEPT !.x = @ + settings.bullet_speed]]

\* C24: an advance of the arsenal moves every bullet right by exactly
\* bullet_speed and then removes exactly the bullets whose right edge is at
\* or beyond screen_w + 80, keeping the others in order; so no bullet of the
\* arsenal has its right edge at or beyond screen_w + 80, and a bullet that
\* hits nothing is removed after finitely many advances: while frames are
\* run and the game is active, an arsenal with bullets becomes empty.
C24_AdvanceThenPrune ==
    /\ [][log' = <<"update">> =>
             arsenal' = SelectSeq(Advanced, LAMBDA b : ~OffScreen(b))]_vars
    /\ [](\A i \in 1..Len(arsenal) : ~OffScreen(arsenal[i]))
    /\ [](settings.bullet_speed > 0)
    /\ (arsenal # <<>>) ~> (arsenal = <<>> \/ ~game_active)

\* C24 witness: the state after the advance that removed the first of two
\* bullets in flight, its right edge having reached screen_w + 80, and kept
\* the second, moved as far.
C24_FirstOfTwoRemoved ==
    \E p \in InFlight : \E n \in 1..60 :
        LET s == Scaled(p.level)
            at(b, k) == Trunc(b.x + k * s.bullet_speed) + s.bullet_h
        IN  /\ Len(p.bullets) = 2
            /\ at(p.bullets[1], n) >= screen_w + 80
            /\ at(p.bullets[1], n - 1) < screen_w + 80
            /\ at(p.bullets[2], n) < screen_w + 80
            /\ log = <<"update">>
            /\ game_active
            /\ arsenal = <<[p.bullets[2] EXCEPT !.x = @ + n * s.bullet_speed]>>

\* C25: the fleet never flips and drops in two frames in a row: a frame that
\* flipped the direction leaves no alien at the top or bottom edge, so the
\* next frame finds none; nor does a frame that laid the level out again,
\* which keeps the direction, and no step between frames moves an alien to
\* or from an edge; at the base fleet speed and at the scaled speeds of the
\* later levels.
C25_NoFlipTwice ==
    [][/\ alien_fleet'.fleet_direction # alien_fleet.fleet_direction =>
             /\ Head(log') = "update"
             /\ AliensAtEdge(alien_fleet') = {}
       /\ InLog(log', "reset_level") => AliensAtEdge(alien_fleet') = {}
       /\ (~InLog(log', "update") /\ ~InLog(log', "reset_level")) =>
             AliensAtEdge(alien_fleet') = AliensAtEdge(alien_fleet)]_vars

\* C25 witness: the state after a frame that flipped and dropped the fleet at
\* a scaled speed: the direction is now -1, the fleet has dropped once, and no
\* alien is at an edge.
C25_FlippedOffTheEdge ==
    /\ game_active
    /\ log = <<"update">>
    /\ stats.level > 1
    /\ Len(alien_fleet.fleet) = Len(create_fleet)
    /\ alien_fleet.fleet_direction = -1
    /\ alien_fleet.fleet[1].x = create_fleet[1].x - Px(settings.fleet_drop_speed)
    /\ alien_fleet.fleet[Len(create_fleet)].y =
          create_fleet[Len(create_fleet)].y
              + (StepsToEdge(stats.level) - 1) * settings.fleet_speed
    /\ AliensAtEdge(alien_fleet) = {}

\* C26: in a session where frames keep being run and the player never fires,
\* whatever the ship's course, no alien is ever destroyed, every number of
\* ships left is followed by a life-loss event (one ship fewer, or the game
\* over with none left), and game_active eventually becomes false.
C26_SessionEnds ==
    /\ [][~InLog(log', "score") /\ ~InLog(log', "fired")]_vars
    /\ \A n \in Lives :
          (game_active /\ stats.ships_left = n)
              ~> (~game_active \/ stats.ships_left < n)
    /\ <>(~game_active)

\* C26 witness: the end of a session that began a level with three ships and
\* the whole fleet: no ship left, the game over, the score as it began.
C26_ThreeShipsLostIdle ==
    \E p \in FreshLevel :
        /\ p.ships_left = 3
        /\ ~game_active
        /\ InLog(log, "game_over")
        /\ stats = [PlayingWorld(p).stats EXCEPT !.ships_left = 0]
        /\ Len(alien_fleet.fleet) = Len(create_fleet)


=============================================================================
